---- MODULE Spec2Model ----
(***************************************************************************)
(* The two offline content pipelines of casilocal.es:                      *)
(*   - ingestion  (src/unnamed/part_001): place search, deduplication      *)
(*     against processed-spots.json, enrichment by text generation, one    *)
(*     venue file per new place, bounded query-refinement retries;         *)
(*   - refinement (src/unnamed/part_002): rewrite of the venue files'      *)
(*     bodies, refined-spots.json ledger, fixed wait between files.        *)
(*                                                                         *)
(* A text is a sequence of tokens.  A token is one character, or a chunk   *)
(* of characters that neither starts nor ends with whitespace and holds    *)
(* no quote and no line break: the string operations of the scripts copy   *)
(* such a chunk unchanged.  Texts handed to slugify are written character  *)
(* by character.  Timestamps (processedAt, refinedAt), coordinates and the *)
(* console output are not modelled.                                        *)
(***************************************************************************)
EXTENDS Integers, Sequences, FiniteSets, TLC

\* ------------------------------------------------------------------ bounds

\* Longest result list a place search returns in the model.
MaxBatch == 3

\* ------------------------------------------------------- program constants

MAX_RETRIES == 3
\* newCount < 5 in the retry condition
MIN_NEW == 5
\* Math.round(rating || 7)
DEFAULT_RATING == 7
\* mapping[priceLevel] || 2.5, amounts in tenths of a euro
DEFAULT_PRICE == 25

\* ------------------------------------------------------------------- text

NL == "\n"
SP == " "
DQ == "\""
LDQ == "ldquo"
RDQ == "rdquo"
Quotes == {DQ, LDQ, RDQ}
Whitespace == {SP, NL}

RECURSIVE TrimStart(_)
TrimStart(s) ==
    IF s # <<>> /\ Head(s) \in Whitespace THEN TrimStart(Tail(s)) ELSE s

RECURSIVE TrimEnd(_)
TrimEnd(s) ==
    IF s # <<>> /\ s[Len(s)] \in Whitespace
    THEN TrimEnd(SubSeq(s, 1, Len(s) - 1))
    ELSE s

\* String.prototype.trim
Trim(s) == TrimEnd(TrimStart(s))

\* .replace(/["""]/g, '')
StripQuotes(s) == SelectSeq(s, LAMBDA c : c \notin Quotes)

\* .split('\n')[0]
RECURSIVE FirstLine(_)
FirstLine(s) ==
    IF s = <<>> \/ Head(s) = NL THEN <<>> ELSE <<Head(s)>> \o FirstLine(Tail(s))

\* x.replace(/["""]/g, '').split('\n')[0].trim()
CleanLine(s) == Trim(FirstLine(StripQuotes(s)))

Centro == <<"C", "e", "n", "t", "r", "o">>
Unknown == <<"U", "n", "k", "n", "o", "w", "n">>
UnknownCafe == <<"U", "n", "k", "n", "o", "w", "n", " ", "C", "a", "f", "e">>
DefaultQuery == <<"Laptop", " ", "friendly", " ", "specialty", " ", "coffee", " ", "madrid">>

\* A chat completion: the call threw, or it returned content (a missing
\* choice or message reads as undefined, which every caller replaces by its
\* default exactly as it replaces the empty string).
Threw == [threw |-> TRUE, content |-> <<>>]
Returned(text) == [threw |-> FALSE, content |-> text]

\* ---------------------------------------------------------------- slugify

LowerChar(c) ==
    CASE c = "A" -> "a" [] c = "B" -> "b" [] c = "C" -> "c" [] c = "S" -> "s"
      [] c = "U" -> "u" [] c = "E_ACUTE" -> "e_acute" [] OTHER -> c

\* .normalize('NFD'): a precomposed letter becomes its base letter and a
\* combining mark of the block U+0300..U+036F
NFDChar(c) ==
    CASE c = "e_acute" -> <<"e", "COMBINING_ACUTE">>
      [] c = "n_tilde" -> <<"n", "COMBINING_TILDE">>
      [] OTHER -> <<c>>

CombiningMarks == {"COMBINING_ACUTE", "COMBINING_TILDE"}

SlugChars ==
    {"a", "b", "c", "d", "e", "f", "g", "h", "i", "j", "k", "l", "m", "n", "o",
     "p", "q", "r", "s", "t", "u", "v", "w", "x", "y", "z",
     "0", "1", "2", "3", "4", "5", "6", "7", "8", "9"}

RECURSIVE Normalize(_)
Normalize(s) == IF s = <<>> THEN <<>> ELSE NFDChar(Head(s)) \o Normalize(Tail(s))

\* CollapseRuns for the pattern /[^a-z0-9]/g: every other character becomes a
\* hyphen
RECURSIVE CollapseRuns_EachChar(_, _)
CollapseRuns_EachChar(s, inRun) ==
    IF s = <<>> THEN <<>>
    ELSE IF Head(s) \in SlugChars
         THEN <<Head(s)>> \o CollapseRuns_EachChar(Tail(s), FALSE)
    ELSE <<"-">> \o CollapseRuns_EachChar(Tail(s), TRUE)

\* .replace(/[^a-z0-9]+/g, '-'): every maximal run of other characters
\* becomes one hyphen
RECURSIVE CollapseRuns(_, _)
CollapseRuns(s, inRun) ==
    IF s = <<>> THEN <<>>
    ELSE IF Head(s) \in SlugChars THEN <<Head(s)>> \o CollapseRuns(Tail(s), FALSE)
    ELSE IF inRun THEN CollapseRuns(Tail(s), TRUE)
    ELSE <<"-">> \o CollapseRuns(Tail(s), TRUE)

\* .replace(/(^-|-$)/g, '')
TrimHyphens(s) ==
    LET a == IF s # <<>> /\ Head(s) = "-" THEN Tail(s) ELSE s
    IN  IF a # <<>> /\ a[Len(a)] = "-" THEN SubSeq(a, 1, Len(a) - 1) ELSE a

slugify(text) ==
    LET lower == [i \in 1..Len(text) |-> LowerChar(text[i])]
        nfd == Normalize(lower)
        bare == SelectSeq(nfd, LAMBDA c : c \notin CombiningMarks)
    IN  TrimHyphens(CollapseRuns(bare, FALSE))

\* ------------------------------------------------------ enrichment helpers

\* content?.trim() || 'Centro', then the clean-up; 'Centro' when the call throws
inferNeighborhoodWithGroq(completion) ==
    IF completion.threw THEN Centro
    ELSE LET t == Trim(completion.content)
         IN  CleanLine(IF t = <<>> THEN Centro ELSE t)

\* content?.trim() || rawName, then the clean-up; rawName when the call throws
cleanCafeNameWithGroq(rawName, completion) ==
    IF completion.threw THEN rawName
    ELSE LET t == Trim(completion.content)
         IN  CleanLine(IF t = <<>> THEN rawName ELSE t)

\* content?.trim() || '', then the clean-up; null when the call throws.
\* The caller tests `newQuery && newQuery !== query`; null and '' are both
\* falsy, so null is returned as the empty text.
suggestNewQuery(completion) ==
    IF completion.threw THEN <<>> ELSE CleanLine(Trim(completion.content))

\* processedNames.slice(0, 15) in the prompt of suggestNewQuery
PROMPT_NAMES == 15
PromptNames(names) ==
    SubSeq(names, 1, IF Len(names) < PROMPT_NAMES THEN Len(names) ELSE PROMPT_NAMES)

\* [...processedNames, ...skippedNames], the names main() hands to
\* suggestNewQuery
SeedNames(known, skipped) == known \o skipped

\* Math.round of a non-negative number given in tenths
MathRound(tenths) == (tenths + 5) \div 10


\* ------------------------------------------------------------ normalizer

PriceMapping ==
    [PRICE_LEVEL_FREE |-> 0, PRICE_LEVEL_INEXPENSIVE |-> 18,
     PRICE_LEVEL_MODERATE |-> 25, PRICE_LEVEL_EXPENSIVE |-> 35,
     PRICE_LEVEL_VERY_EXPENSIVE |-> 45]

\* mapping[priceLevel] || 2.5, in tenths of a euro: a tier that is not a key
\* reads as undefined, and undefined and 0 are both falsy
priceLevelToEuros(priceLevel) ==
    IF priceLevel \in DOMAIN PriceMapping /\ PriceMapping[priceLevel] # 0
    THEN PriceMapping[priceLevel]
    ELSE DEFAULT_PRICE

\* What JSON.parse makes of the completion of the review prompt (after the
\* code-fence markers are stripped): a syntax error, the value null, or an
\* object whose fields are whatever the service wrote.
InvalidJson == [json |-> "invalid"]
NullJson == [json |-> "null"]
ObjectJson(wifi, noise, plug, score, review) ==
    [json |-> "object", wifi_speed |-> wifi, noise_level |-> noise,
     plug_access |-> plug, casi_score |-> score, review |-> review]

Heading == "##"
\* `## The Vibe\n\n${placeName} is a Madrid cafe ...`
TemplateReview(placeName) ==
    <<Heading, SP, "The Vibe", NL, NL>> \o placeName
        \o <<SP, "is a Madrid cafe that does the basics right.", NL, NL,
             Heading, SP, "The Verdict", NL, NL, "A solid choice.">>
GeneratedReview ==
    <<Heading, SP, "The Vibe", NL, NL, "Fast wifi.", NL, NL,
      Heading, SP, "The Verdict", NL, NL, "Bring a charger.">>

\* The object both fallback branches of synthesizeReview return; the rating
\* is in tenths, 0 for a place without rating
FallbackSynthesis(placeName, rating) ==
    [kind |-> "object", wifi_speed |-> "reliable", noise_level |-> "hum",
     plug_access |-> TRUE,
     casi_score |-> MathRound(IF rating = 0 THEN DEFAULT_RATING * 10 ELSE rating),
     review |-> TemplateReview(placeName)]

\* synthesizeReview: no call without review text; the call itself is outside
\* the try block, so its error propagates (kind "threw"); only JSON.parse is
\* guarded.  JSON.parse's value is returned unchecked.
synthesizeReview(placeName, hasReviewText, rating, completion) ==
    IF ~hasReviewText THEN FallbackSynthesis(placeName, rating)
    ELSE IF completion.threw THEN [kind |-> "threw"]
    ELSE IF completion.content.json = "invalid" THEN FallbackSynthesis(placeName, rating)
    ELSE IF completion.content.json = "null" THEN [kind |-> "null"]
    ELSE [kind |-> "object",
          wifi_speed |-> completion.content.wifi_speed,
          noise_level |-> completion.content.noise_level,
          plug_access |-> completion.content.plug_access,
          casi_score |-> completion.content.casi_score,
          review |-> completion.content.review]

\* generateMdx for a synthesis that is an object (reading a field of null
\* throws a TypeError, which the caller of this operator models); the
\* coordinates are copied from the place and left out
generateMdx(place, synthesis, neighborhood, cleanName) ==
    LET title == IF cleanName # <<>> THEN cleanName
                 ELSE IF place.displayName # <<>> THEN place.displayName
                 ELSE UnknownCafe
    IN  [slug |-> slugify(neighborhood) \o <<"-">> \o slugify(title),
         content |->
            [delimited |-> TRUE,
             frontmatter |->
                [title |-> title, author |-> <<"murad-madi">>,
                 neighborhood |-> neighborhood,
                 wifi_speed |-> synthesis.wifi_speed,
                 noise_level |-> synthesis.noise_level,
                 plug_access |-> synthesis.plug_access,
                 coffee_price |-> priceLevelToEuros(place.priceLevel),
                 casi_score |-> synthesis.casi_score],
             rest |-> <<NL>> \o synthesis.review \o <<NL>>]]

\* ------------------------------------------------------------ ledger store

\* processed-spots.json / refined-spots.json: absent, not parseable, a JSON
\* array of entries, or JSON that is not an array (the object {}, which has
\* no entries)
MissingFile == [exists |-> FALSE, parses |-> FALSE, array |-> FALSE, spots |-> <<>>]
CorruptFile == [exists |-> TRUE, parses |-> FALSE, array |-> FALSE, spots |-> <<>>]
JsonFile(entries) == [exists |-> TRUE, parses |-> TRUE, array |-> TRUE, spots |-> entries]
ObjectFile == [exists |-> TRUE, parses |-> TRUE, array |-> FALSE, spots |-> <<>>]

\* [] for an absent or unparseable file, else whatever JSON.parse returns
loadProcessedSpots(file) ==
    IF file.exists THEN (IF file.parses THEN file.spots ELSE <<>>) ELSE <<>>

\* Whether the value loadProcessedSpots / loadRefinedSpots returns is an array
LoadsArray(file) == ~file.exists \/ ~file.parses \/ file.array

saveProcessedSpots(spots) == JsonFile(spots)


\* ------------------------------------------------------------- environment

\* The places a search can return.  displayName <<>> and googleMapsUri ""
\* stand for an absent field (the code reads both through `|| default`);
\* rating is in tenths, 0 when absent; hasReviewText says whether any of the
\* first five reviews carries text.
PlaceAb ==
    [displayName |-> <<"A", "b">>, googleMapsUri |-> "maps/ab", rating |-> 45,
     hasReviewText |-> TRUE, priceLevel |-> "PRICE_LEVEL_FREE"]
PlaceCd ==
    [displayName |-> <<"C", "d">>, googleMapsUri |-> "maps/cd", rating |-> 0,
     hasReviewText |-> FALSE, priceLevel |-> "PRICE_LEVEL_EXPENSIVE"]
Places == {PlaceAb, PlaceCd}

\* data.places || []: every list of at most MaxBatch places
Batches == UNION {[1..n -> Places] : n \in 0..MaxBatch}

NeighborhoodCompletions ==
    {Threw, Returned(<<>>),
     Returned(<<DQ, "C", "e", "n", "t", "r", "o", DQ, NL, "It is central.">>)}
NameCompletions ==
    {Threw, Returned(<<SP, "A", "b", SP>>)}
ReviewCompletions ==
    {Threw, Returned(InvalidJson), Returned(NullJson),
     Returned(ObjectJson("flynet", "silence", FALSE, 9, GeneratedReview))}
QueryCompletions ==
    {Threw, Returned(<<>>), Returned(<<DQ, DQ>>),
     Returned(<<SP, DQ, "coworking", DQ, NL, "because">>),
     Returned(<<"quiet", SP, "cafes">>)}
\* process.argv[2]: absent, or a query
Arguments == {<<>>, <<"coworking">>}

\* ------------------------------------------------------------------- state

VARIABLES
    credential,      \* GOOGLE_PLACES_API_KEY is set
    PROCESSED_FILE,  \* processed-spots.json
    files,           \* SPOTS_DIR: file name |-> content
    pc,              \* where main() of the ingestion script is
    query, retryCount, totalNew, totalSkipped,
    processedSpots, processedUris, processedNames,
    places, idx, newCount, skippedCount, skippedNames,
    neighborhood, cleanName, newQuery,
    \* history of the current run
    discoverCalls,   \* place-search requests sent
    suggestCalls,    \* query-suggestion requests sent
    genCalls,        \* enrichment text-generation requests sent
    asked,           \* query-suggestion requests since the last place search
    prevQuery,       \* query of the last place search, <<>> before the first
    callThrew,       \* some external call of the run failed
    failedAt,        \* the function whose error ended the run, "" if none
    \* history of all ingestion runs
    ingested,        \* URIs of the places whose venue file has been written
    \* more history of the current run
    loadedSpots,     \* the entries loadProcessedSpots returned
    seen,            \* candidates the place searches have returned
    \* the refinement script
    REFINED_FILE,    \* refined-spots.json
    rpc,             \* where main() of the refinement script is
    singleFile,      \* process.argv[2], <<>> when absent
    filesToProcess, refinedSpots, processed,
    pos,             \* index in filesToProcess of the file of the for loop
    parsed,          \* frontmatter, body and spotName of the file being refined
    author,
    \* history of the current refinement run
    requests,        \* rewrite requests sent to text generation
    sleptSinceRequest, \* milliseconds slept since the last rewrite request
    gap,             \* milliseconds slept between the last two rewrite requests
    rewritten,       \* files overwritten
    marked,          \* files whose ledger entry has been saved
    attempts,        \* files at which the body of the for loop was entered
    \* a function of the scripts applied on its own
    call,            \* the function and its arguments, NoCall when none
    result           \* what it returned, NoResult before it returns

refinement ==
    <<REFINED_FILE, rpc, singleFile, filesToProcess, refinedSpots, processed,
      pos, parsed, author, requests, sleptSinceRequest, gap, rewritten,
      marked, attempts>>

ingestion ==
    <<credential, PROCESSED_FILE, pc, query, retryCount, totalNew,
      totalSkipped, processedSpots, processedUris, processedNames, places, idx,
      newCount, skippedCount, skippedNames, neighborhood, cleanName, newQuery,
      discoverCalls, suggestCalls, genCalls, asked, prevQuery, callThrew,
      failedAt, ingested, loadedSpots, seen>>

functions == <<call, result>>

vars == <<ingestion, files, refinement, functions>>

disk == <<credential, PROCESSED_FILE, files>>
loopVars == <<places, idx, newCount, skippedCount, skippedNames>>
ledgerVars == <<processedSpots, processedUris, processedNames>>
totals == <<totalNew, totalSkipped>>
locals == <<neighborhood, cleanName, newQuery>>
history == <<discoverCalls, suggestCalls, genCalls, asked, prevQuery, callThrew, failedAt>>

\* A venue file is `---\n<frontmatter>\n---\n<rest>`; a file without the
\* delimiters is [delimited |-> FALSE].  The frontmatter is kept as its
\* fields.
MdxExt == ".mdx"
NoFiles == [f \in {} |-> <<>>]
WriteFile(fs, name, content) ==
    [f \in DOMAIN fs \cup {name} |-> IF f = name THEN content ELSE fs[f]]

\* main() before its first statement: argv read, counters at their initial
\* values
StartOfRun(argv) ==
    /\ query = (IF argv # <<>> THEN argv ELSE DefaultQuery)
    /\ retryCount = 0 /\ totalNew = 0 /\ totalSkipped = 0
    /\ processedSpots = <<>> /\ processedUris = {} /\ processedNames = <<>>
    /\ places = <<>> /\ idx = 1 /\ newCount = 0 /\ skippedCount = 0
    /\ skippedNames = <<>>
    /\ neighborhood = <<>> /\ cleanName = <<>> /\ newQuery = <<>>
    /\ discoverCalls = 0 /\ suggestCalls = 0 /\ genCalls = 0 /\ asked = 0
    /\ prevQuery = <<>> /\ callThrew = FALSE /\ failedAt = ""
    /\ loadedSpots = <<>> /\ seen = 0

\* No function is applied on its own while a script runs
NoCall == [fn |-> "none"]
NoResult == [returned |-> FALSE]

NoParse == [frontmatter |-> <<>>, body |-> <<>>, spotName |-> <<>>]

\* main() of the refinement script before its first statement
StartOfRefinement(argv) ==
    /\ singleFile = argv
    /\ filesToProcess = <<>> /\ refinedSpots = <<>> /\ processed = 0 /\ pos = 1
    /\ parsed = NoParse /\ author = <<>>
    /\ requests = 0 /\ sleptSinceRequest = 0 /\ gap = 0
    /\ rewritten = {} /\ marked = {} /\ attempts = <<>>

\* The ingestion script runs (again and again) on a disk without ledger
InitIngestion ==
    /\ credential \in BOOLEAN
    /\ PROCESSED_FILE \in {MissingFile, CorruptFile}
    /\ files = NoFiles
    /\ pc = "start" /\ \E argv \in Arguments : StartOfRun(argv)
    /\ ingested = {}
    /\ REFINED_FILE = MissingFile
    /\ rpc = "off" /\ StartOfRefinement(<<>>)
    /\ call = NoCall /\ result = NoResult

\* ------------------------------------------------------ ingestion: main()

\* lines 318-321; processedSpots.map of a value that is not an array throws
\* a TypeError: main().catch
Load ==
    /\ UNCHANGED <<refinement, functions>>
    /\ pc = "start"
    /\ IF LoadsArray(PROCESSED_FILE)
       THEN /\ processedSpots' = loadProcessedSpots(PROCESSED_FILE)
            /\ processedUris' = {processedSpots'[i].uri : i \in 1..Len(processedSpots')}
            /\ processedNames' = [i \in 1..Len(processedSpots') |-> processedSpots'[i].name]
            /\ loadedSpots' = processedSpots'
            /\ pc' = "discover"
            /\ UNCHANGED failedAt
       ELSE /\ pc' = "failed" /\ failedAt' = "main"
            /\ UNCHANGED <<ledgerVars, loadedSpots>>
    /\ UNCHANGED <<disk, ingested, seen, query, retryCount, totals, loopVars, locals,
                   discoverCalls, suggestCalls, genCalls, asked, prevQuery, callThrew>>

\* fetchPlaces with the credential test after the request
DiscoverNoCredential_AfterRequest ==
    /\ UNCHANGED <<refinement, functions>>
    /\ pc = "discover" /\ retryCount < MAX_RETRIES
    /\ ~credential
    /\ discoverCalls' = discoverCalls + 1
    /\ pc' = "failed" /\ failedAt' = "credential"
    /\ UNCHANGED <<disk, ingested, loadedSpots, seen, query, retryCount, totals,
                   ledgerVars, loopVars, locals, suggestCalls, genCalls, asked,
                   prevQuery, callThrew>>

\* fetchPlaces without credential: throws before the request; main().catch
DiscoverNoCredential ==
    /\ UNCHANGED <<refinement, functions>>
    /\ pc = "discover" /\ retryCount < MAX_RETRIES
    /\ ~credential
    /\ pc' = "failed" /\ failedAt' = "credential"
    /\ UNCHANGED <<disk, ingested, loadedSpots, seen, query, retryCount, totals, ledgerVars, loopVars, locals,
                   discoverCalls, suggestCalls, genCalls, asked, prevQuery, callThrew>>

\* fetchPlaces, response not ok: throws; main().catch
DiscoverFails ==
    /\ UNCHANGED <<refinement, functions>>
    /\ pc = "discover" /\ retryCount < MAX_RETRIES
    /\ credential
    /\ discoverCalls' = discoverCalls + 1 /\ prevQuery' = query /\ asked' = 0
    /\ callThrew' = TRUE
    /\ pc' = "failed" /\ failedAt' = "fetchPlaces"
    /\ UNCHANGED <<disk, ingested, loadedSpots, seen, query, retryCount, totals, ledgerVars, loopVars, locals,
                   suggestCalls, genCalls>>

\* fetchPlaces returns a list; processPlaces starts
Discover(batch) ==
    /\ UNCHANGED <<refinement, functions>>
    /\ pc = "discover" /\ retryCount < MAX_RETRIES
    /\ credential
    /\ discoverCalls' = discoverCalls + 1 /\ prevQuery' = query /\ asked' = 0
    /\ places' = batch /\ idx' = 1
    /\ seen' = seen + Len(batch)
    /\ newCount' = 0 /\ skippedCount' = 0 /\ skippedNames' = <<>>
    /\ pc' = "loop"
    \* newQuery is a constant of the body of the while loop
    /\ newQuery' = <<>>
    /\ UNCHANGED <<disk, ingested, loadedSpots, query, retryCount, totals, ledgerVars, neighborhood,
                   cleanName, suggestCalls, genCalls, callThrew, failedAt>>

\* ----------------------------------------------- ingestion: processPlaces

\* place.displayName?.text || 'Unknown'
NameOf(place) == IF place.displayName # <<>> THEN place.displayName ELSE Unknown
\* place.googleMapsUri || ''
UriOf(place) == place.googleMapsUri

InLoop == pc = "loop" /\ idx <= Len(places)

\* processedUris.has(uri): counted and skipped
Skip ==
    /\ UNCHANGED <<refinement, functions>>
    /\ InLoop
    /\ UriOf(places[idx]) \in processedUris
    /\ skippedCount' = skippedCount + 1
    /\ skippedNames' = Append(skippedNames, NameOf(places[idx]))
    /\ idx' = idx + 1
    /\ UNCHANGED <<disk, ingested, loadedSpots, seen, pc, query, retryCount, totals, ledgerVars, places,
                   newCount, locals, history>>

InferNeighborhood(completion) ==
    /\ UNCHANGED <<refinement, functions>>
    /\ InLoop
    /\ UriOf(places[idx]) \notin processedUris
    /\ neighborhood' = inferNeighborhoodWithGroq(completion)
    /\ genCalls' = genCalls + 1
    /\ callThrew' = (callThrew \/ completion.threw)
    /\ pc' = "clean"
    /\ UNCHANGED <<disk, ingested, loadedSpots, seen, query, retryCount, totals, ledgerVars, loopVars,
                   cleanName, newQuery, discoverCalls, suggestCalls, asked,
                   prevQuery, failedAt>>

CleanName(completion) ==
    /\ UNCHANGED <<refinement, functions>>
    /\ pc = "clean"
    /\ cleanName' = cleanCafeNameWithGroq(NameOf(places[idx]), completion)
    /\ genCalls' = genCalls + 1
    /\ callThrew' = (callThrew \/ completion.threw)
    /\ pc' = "synth"
    /\ UNCHANGED <<disk, ingested, loadedSpots, seen, query, retryCount, totals, ledgerVars, loopVars,
                   neighborhood, newQuery, discoverCalls, suggestCalls, asked,
                   prevQuery, failedAt>>

Synthesis(completion) ==
    synthesizeReview(cleanName, places[idx].hasReviewText, places[idx].rating,
                     completion)

\* The completion the review step gets: none is requested without review text
ReviewOutcomes ==
    IF pc = "synth" /\ ~places[idx].hasReviewText THEN {Threw} ELSE ReviewCompletions

\* synthesizeReview rejects, or generateMdx reads a field of null: the error
\* leaves processPlaces and main(); main().catch exits with status 1
EnrichAborts(completion) ==
    /\ UNCHANGED <<refinement, functions>>
    /\ pc = "synth"
    /\ Synthesis(completion).kind \in {"threw", "null"}
    /\ genCalls' = genCalls + 1
    /\ callThrew' = (callThrew \/ completion.threw)
    /\ pc' = "failed"
    /\ failedAt' = (IF completion.threw THEN "synthesizeReview" ELSE "generateMdx")
    /\ UNCHANGED <<disk, ingested, loadedSpots, seen, query, retryCount, totals, ledgerVars, loopVars, locals,
                   discoverCalls, suggestCalls, asked, prevQuery>>

\* WriteSpot without processedUris.add(uri)
WriteSpot_ForgetsUri(completion) ==
    /\ UNCHANGED <<refinement, functions>>
    /\ pc = "synth"
    /\ Synthesis(completion).kind = "object"
    /\ LET place == places[idx]
           mdx == generateMdx(place, Synthesis(completion), neighborhood, cleanName)
       IN  /\ files' = WriteFile(files, mdx.slug \o <<MdxExt>>, mdx.content)
           /\ processedSpots' =
                Append(processedSpots,
                       [uri |-> UriOf(place), name |-> NameOf(place),
                        neighborhood |-> neighborhood, slug |-> mdx.slug])
           /\ processedUris' = processedUris
           /\ ingested' = ingested \cup {UriOf(place)}
    /\ genCalls' = genCalls + (IF places[idx].hasReviewText THEN 1 ELSE 0)
    /\ newCount' = newCount + 1
    /\ idx' = idx + 1
    /\ pc' = "loop"
    \* neighborhood and cleanName are constants of the loop body
    /\ neighborhood' = <<>> /\ cleanName' = <<>>
    /\ UNCHANGED <<credential, PROCESSED_FILE, loadedSpots, seen, query,
                   retryCount, totals, processedNames, places, skippedCount, skippedNames, newQuery,
                   discoverCalls, suggestCalls, asked, prevQuery, callThrew,
                   failedAt>>

\* WriteSpot with processedSpots.unshift for processedSpots.push
WriteSpot_Prepends(completion) ==
    /\ UNCHANGED <<refinement, functions>>
    /\ pc = "synth"
    /\ Synthesis(completion).kind = "object"
    /\ LET place == places[idx]
           mdx == generateMdx(place, Synthesis(completion), neighborhood, cleanName)
       IN  /\ files' = WriteFile(files, mdx.slug \o <<MdxExt>>, mdx.content)
           /\ processedSpots' =
                <<[uri |-> UriOf(place), name |-> NameOf(place),
                   neighborhood |-> neighborhood, slug |-> mdx.slug]>>
                    \o processedSpots
           /\ processedUris' = processedUris \cup {UriOf(place)}
           /\ ingested' = ingested \cup {UriOf(place)}
    /\ genCalls' = genCalls + (IF places[idx].hasReviewText THEN 1 ELSE 0)
    /\ newCount' = newCount + 1
    /\ idx' = idx + 1
    /\ pc' = "loop"
    /\ neighborhood' = <<>> /\ cleanName' = <<>>
    /\ UNCHANGED <<credential, PROCESSED_FILE, loadedSpots, seen, query,
                   retryCount, totals, processedNames, places, skippedCount,
                   skippedNames, newQuery, discoverCalls, suggestCalls, asked,
                   prevQuery, callThrew, failedAt>>

\* WriteSpot with a synthesizeReview that asks the service also when the
\* place has no review text
WriteSpot_AlwaysGenerates(completion) ==
    /\ UNCHANGED <<refinement, functions>>
    /\ pc = "synth"
    /\ Synthesis(completion).kind = "object"
    /\ LET place == places[idx]
           mdx == generateMdx(place, Synthesis(completion), neighborhood, cleanName)
       IN  /\ files' = WriteFile(files, mdx.slug \o <<MdxExt>>, mdx.content)
           /\ processedSpots' =
                Append(processedSpots,
                       [uri |-> UriOf(place), name |-> NameOf(place),
                        neighborhood |-> neighborhood, slug |-> mdx.slug])
           /\ processedUris' = processedUris \cup {UriOf(place)}
           /\ ingested' = ingested \cup {UriOf(place)}
    /\ genCalls' = genCalls + 1
    /\ newCount' = newCount + 1
    /\ idx' = idx + 1
    /\ pc' = "loop"
    /\ neighborhood' = <<>> /\ cleanName' = <<>>
    /\ UNCHANGED <<credential, PROCESSED_FILE, loadedSpots, seen, query,
                   retryCount, totals, processedNames, places, skippedCount,
                   skippedNames, newQuery, discoverCalls, suggestCalls, asked,
                   prevQuery, callThrew, failedAt>>

\* WriteSpot with a write that leaves an existing file alone
WriteSpot_KeepsExisting(completion) ==
    /\ UNCHANGED <<refinement, functions>>
    /\ pc = "synth"
    /\ Synthesis(completion).kind = "object"
    /\ LET place == places[idx]
           mdx == generateMdx(place, Synthesis(completion), neighborhood, cleanName)
       IN  /\ files' = (IF mdx.slug \o <<MdxExt>> \in DOMAIN files THEN files
                        ELSE WriteFile(files, mdx.slug \o <<MdxExt>>, mdx.content))
           /\ processedSpots' =
                Append(processedSpots,
                       [uri |-> UriOf(place), name |-> NameOf(place),
                        neighborhood |-> neighborhood, slug |-> mdx.slug])
           /\ processedUris' = processedUris \cup {UriOf(place)}
           /\ ingested' = ingested \cup {UriOf(place)}
    /\ genCalls' = genCalls + (IF places[idx].hasReviewText THEN 1 ELSE 0)
    /\ newCount' = newCount + 1
    /\ idx' = idx + 1
    /\ pc' = "loop"
    /\ neighborhood' = <<>> /\ cleanName' = <<>>
    /\ UNCHANGED <<credential, PROCESSED_FILE, loadedSpots, seen, query,
                   retryCount, totals, processedNames, places, skippedCount,
                   skippedNames, newQuery, discoverCalls, suggestCalls, asked,
                   prevQuery, callThrew, failedAt>>

\* lines 287-305: synthesis, generateMdx, writeFileSync, push, add, newCount++
WriteSpot(completion) ==
    /\ UNCHANGED <<refinement, functions>>
    /\ pc = "synth"
    /\ Synthesis(completion).kind = "object"
    /\ LET place == places[idx]
           mdx == generateMdx(place, Synthesis(completion), neighborhood, cleanName)
       IN  /\ files' = WriteFile(files, mdx.slug \o <<MdxExt>>, mdx.content)
           /\ processedSpots' =
                Append(processedSpots,
                       [uri |-> UriOf(place), name |-> NameOf(place),
                        neighborhood |-> neighborhood, slug |-> mdx.slug])
           /\ processedUris' = processedUris \cup {UriOf(place)}
           /\ ingested' = ingested \cup {UriOf(place)}
    /\ genCalls' = genCalls + (IF places[idx].hasReviewText THEN 1 ELSE 0)
    /\ newCount' = newCount + 1
    /\ idx' = idx + 1
    /\ pc' = "loop"
    \* neighborhood and cleanName are constants of the loop body
    /\ neighborhood' = <<>> /\ cleanName' = <<>>
    /\ UNCHANGED <<credential, PROCESSED_FILE, loadedSpots, seen, query,
                   retryCount, totals, processedNames, places, skippedCount, skippedNames, newQuery,
                   discoverCalls, suggestCalls, asked, prevQuery, callThrew,
                   failedAt>>

\* --------------------------------------------- ingestion: retry evaluation

\* RetryWanted with 0/0 taken as a ratio above 0.5
RetryWanted_NaNIsHigh ==
    /\ (Len(places) = 0 \/ 2 * skippedCount > Len(places))
    /\ newCount < MIN_NEW
    /\ retryCount < MAX_RETRIES - 1

\* duplicateRatio > 0.5 (0/0 is NaN, which is not > 0.5) && newCount < 5 &&
\* retryCount < MAX_RETRIES - 1
RetryWanted ==
    /\ Len(places) > 0 /\ 2 * skippedCount > Len(places)
    /\ newCount < MIN_NEW
    /\ retryCount < MAX_RETRIES - 1

\* processPlaces returned; lines 336-342 and, without retry, break and 359
EndBatch ==
    /\ UNCHANGED <<refinement, functions>>
    /\ pc = "loop" /\ idx > Len(places)
    /\ totalNew' = totalNew + newCount
    /\ totalSkipped' = totalSkipped + skippedCount
    /\ IF RetryWanted
       THEN /\ pc' = "suggest"
            /\ UNCHANGED PROCESSED_FILE
       ELSE /\ pc' = "done"
            /\ PROCESSED_FILE' = saveProcessedSpots(processedSpots)
    /\ UNCHANGED <<credential, files, ingested, loadedSpots, seen, query, retryCount, ledgerVars, loopVars,
                   locals, history>>

\* Suggest with `if (newQuery)` for `if (newQuery && newQuery !== query)`
Suggest_AcceptsSame(completion) ==
    /\ UNCHANGED <<refinement, functions>>
    /\ pc = "suggest"
    /\ newQuery' = suggestNewQuery(completion)
    /\ suggestCalls' = suggestCalls + 1 /\ asked' = asked + 1
    /\ callThrew' = (callThrew \/ completion.threw)
    /\ IF newQuery' # <<>>
       THEN /\ query' = newQuery'
            /\ retryCount' = retryCount + 1
            /\ pc' = "discover"
            /\ UNCHANGED PROCESSED_FILE
       ELSE /\ pc' = "done"
            /\ PROCESSED_FILE' = saveProcessedSpots(processedSpots)
            /\ UNCHANGED <<query, retryCount>>
    /\ UNCHANGED <<credential, files, ingested, loadedSpots, seen, totals, ledgerVars, loopVars, neighborhood,
                   cleanName, discoverCalls, genCalls, prevQuery, failedAt>>

\* lines 345-352, and break and 359 when the suggestion is not usable
Suggest(completion) ==
    /\ UNCHANGED <<refinement, functions>>
    /\ pc = "suggest"
    /\ newQuery' = suggestNewQuery(completion)
    /\ suggestCalls' = suggestCalls + 1 /\ asked' = asked + 1
    /\ callThrew' = (callThrew \/ completion.threw)
    /\ IF newQuery' # <<>> /\ newQuery' # query
       THEN /\ query' = newQuery'
            /\ retryCount' = retryCount + 1
            /\ pc' = "discover"
            /\ UNCHANGED PROCESSED_FILE
       ELSE /\ pc' = "done"
            /\ PROCESSED_FILE' = saveProcessedSpots(processedSpots)
            /\ UNCHANGED <<query, retryCount>>
    /\ UNCHANGED <<credential, files, ingested, loadedSpots, seen, totals, ledgerVars, loopVars, neighborhood,
                   cleanName, discoverCalls, genCalls, prevQuery, failedAt>>

\* The script is started again on the same disk
NewRun(argv) ==
    /\ UNCHANGED <<refinement, functions>>
    /\ pc \in {"done", "failed"}
    /\ pc' = "start"
    /\ query' = (IF argv # <<>> THEN argv ELSE DefaultQuery)
    /\ retryCount' = 0 /\ totalNew' = 0 /\ totalSkipped' = 0
    /\ processedSpots' = <<>> /\ processedUris' = {} /\ processedNames' = <<>>
    /\ places' = <<>> /\ idx' = 1 /\ newCount' = 0 /\ skippedCount' = 0
    /\ skippedNames' = <<>>
    /\ neighborhood' = <<>> /\ cleanName' = <<>> /\ newQuery' = <<>>
    /\ discoverCalls' = 0 /\ suggestCalls' = 0 /\ genCalls' = 0 /\ asked' = 0
    /\ prevQuery' = <<>> /\ callThrew' = FALSE /\ failedAt' = ""
    /\ loadedSpots' = <<>> /\ seen' = 0
    /\ UNCHANGED <<disk, ingested>>

\* ------------------------------------------------------ refinement script

\* 600 * 1000
RATE_LIMIT_MS == 600 * 1000

ExampleSpot == <<"example-spot", MdxExt>>

loadRefinedSpots(file) ==
    IF file.exists THEN (IF file.parses THEN file.spots ELSE <<>>) ELSE <<>>

saveRefinedSpots(spots) == JsonFile(spots)

\* content.match(/^---\n([\s\S]*?)\n---\n([\s\S]*)$/)
Matches(content) == content.delimited

\* parseMdx of a content that matches (it throws on one that does not)
parseMdx(content) ==
    [frontmatter |-> content.frontmatter, body |-> Trim(content.rest)]

\* buildMdx: the author is patched into the frontmatter text: replaced where
\* an author field is found, else added after the title field where there is
\* one; a field that is absent is <<>>
buildMdx(frontmatter, body, newAuthor) ==
    LET newFrontmatter ==
            IF newAuthor = <<>> THEN frontmatter
            ELSE IF frontmatter.author # <<>>
                 THEN [frontmatter EXCEPT !.author = newAuthor]
            ELSE IF frontmatter.title # <<>>
                 THEN [frontmatter EXCEPT !.author = newAuthor]
            ELSE frontmatter
    IN  [delimited |-> TRUE, frontmatter |-> newFrontmatter,
         rest |-> <<NL>> \o body \o <<NL>>]

\* Math.random() in hundredths
selectRandomAuthor(rand) ==
    IF rand < 40 THEN <<"murad">>
    ELSE IF rand < 55 THEN <<"isabella">>
    ELSE IF rand < 70 THEN <<"mikelia">>
    ELSE IF rand < 85 THEN <<"sara">>
    ELSE <<"robert">>

\* refineReview for a completion that returned (its error propagates to the
\* catch of the for loop)
refineReview(completion) ==
    LET refined == Trim(completion.content)
    IN  IF refined # <<>> /\ Head(refined) = Heading THEN refined
        ELSE <<Heading, SP, "The Vibe", NL, NL>> \o refined

\* titleMatch ? titleMatch[1] : filename.replace('.mdx', '')
SpotNameOf(frontmatter, filename) ==
    IF frontmatter.title # <<>> THEN frontmatter.title
    ELSE SelectSeq(filename, LAMBDA t : t # MdxExt)

Randoms == {39, 40}
\* What the rewrite request can return (RefineFails is the call that throws)
RefineCompletions ==
    {Returned(<<>>),
     Returned(<<SP, Heading, SP, "First Impressions", NL, NL, "De toda la vida.", NL>>)}

\* What a directory listing can be: the .mdx files in any order
Listings ==
    LET names == {f \in DOMAIN files : f[Len(f)] = MdxExt}
    IN  {l \in [1..Cardinality(names) -> names] :
            \A i, j \in 1..Cardinality(names) : l[i] = l[j] => i = j}

FilenamesOf(spots) == {spots[i].filename : i \in 1..Len(spots)}

\* lines 147-159 and 176-182, single file mode
SelectSingle ==
    /\ UNCHANGED <<ingestion, functions, attempts>>
    /\ rpc = "start" /\ singleFile # <<>>
    /\ LET filename == IF singleFile[Len(singleFile)] = MdxExt THEN singleFile
                       ELSE singleFile \o <<MdxExt>>
       IN  IF filename \in DOMAIN files
           THEN /\ filesToProcess' = <<filename>>
                /\ rpc' = "file"
           ELSE /\ rpc' = "failed"
                /\ UNCHANGED filesToProcess
    /\ UNCHANGED <<files, REFINED_FILE, singleFile, refinedSpots, processed, pos,
                   parsed, author, requests, sleptSinceRequest, gap, rewritten,
                   marked>>

\* SelectBatch without the filter on refinedSet
SelectBatch_NoFilter(listing) ==
    /\ UNCHANGED <<ingestion, functions, attempts>>
    /\ rpc = "start" /\ singleFile = <<>>
    /\ IF LoadsArray(REFINED_FILE)
       THEN /\ LET found == SelectSeq(listing, LAMBDA f : f # ExampleSpot)
                   refinedSet == FilenamesOf(loadRefinedSpots(REFINED_FILE))
               IN  filesToProcess' = found
            /\ IF Len(filesToProcess') = 0
               THEN /\ rpc' = "done"
                    /\ UNCHANGED refinedSpots
               ELSE /\ rpc' = "file"
                    /\ refinedSpots' = loadRefinedSpots(REFINED_FILE)
       ELSE /\ rpc' = "failed"
            /\ UNCHANGED <<filesToProcess, refinedSpots>>
    /\ UNCHANGED <<files, REFINED_FILE, singleFile, processed, pos, parsed,
                   author, requests, sleptSinceRequest, gap, rewritten, marked>>

\* lines 160-182, batch mode; refinedSpots.map of a value that is not an
\* array throws a TypeError: main().catch
SelectBatch(listing) ==
    /\ UNCHANGED <<ingestion, functions, attempts>>
    /\ rpc = "start" /\ singleFile = <<>>
    /\ IF LoadsArray(REFINED_FILE)
       THEN /\ LET found == SelectSeq(listing, LAMBDA f : f # ExampleSpot)
                   refinedSet == FilenamesOf(loadRefinedSpots(REFINED_FILE))
               IN  filesToProcess' = SelectSeq(found, LAMBDA f : f \notin refinedSet)
            /\ IF Len(filesToProcess') = 0
               THEN /\ rpc' = "done"
                    /\ UNCHANGED refinedSpots
               ELSE /\ rpc' = "file"
                    /\ refinedSpots' = loadRefinedSpots(REFINED_FILE)
       ELSE /\ rpc' = "failed"
            /\ UNCHANGED <<filesToProcess, refinedSpots>>
    /\ UNCHANGED <<files, REFINED_FILE, singleFile, processed, pos, parsed,
                   author, requests, sleptSinceRequest, gap, rewritten, marked>>

AtFile == rpc = "file" /\ pos <= Len(filesToProcess)

\* parseMdx throws: caught and logged, the loop goes on
ParseFails ==
    /\ UNCHANGED <<ingestion, functions>>
    /\ AtFile
    /\ attempts' = Append(attempts, filesToProcess[pos])
    /\ ~Matches(files[filesToProcess[pos]])
    /\ pos' = pos + 1
    /\ UNCHANGED <<files, REFINED_FILE, rpc, singleFile, filesToProcess,
                   refinedSpots, processed, parsed, author, requests,
                   sleptSinceRequest, gap, rewritten, marked>>

\* lines 193-212: the file is read and parsed, the author drawn, the rewrite
\* requested
Request(rand) ==
    /\ UNCHANGED <<ingestion, functions>>
    /\ AtFile
    /\ attempts' = Append(attempts, filesToProcess[pos])
    /\ Matches(files[filesToProcess[pos]])
    /\ LET mdx == parseMdx(files[filesToProcess[pos]])
       IN  parsed' = [frontmatter |-> mdx.frontmatter, body |-> mdx.body,
                      spotName |-> SpotNameOf(mdx.frontmatter, filesToProcess[pos])]
    /\ author' = selectRandomAuthor(rand)
    /\ requests' = requests + 1
    /\ gap' = sleptSinceRequest
    /\ sleptSinceRequest' = 0
    /\ rpc' = "refining"
    /\ UNCHANGED <<files, REFINED_FILE, singleFile, filesToProcess, refinedSpots,
                   processed, pos, rewritten, marked>>

\* RefineFails without the try/catch of the loop body: the error ends main()
RefineFails_Aborts ==
    /\ UNCHANGED <<ingestion, functions, attempts>>
    /\ rpc = "refining"
    /\ rpc' = "failed"
    /\ parsed' = NoParse /\ author' = <<>>
    /\ UNCHANGED <<files, REFINED_FILE, singleFile, filesToProcess, refinedSpots,
                   processed, pos, requests, sleptSinceRequest, gap, rewritten,
                   marked>>

\* refineReview rejects: caught and logged, the loop goes on
RefineFails ==
    /\ UNCHANGED <<ingestion, functions, attempts>>
    /\ rpc = "refining"
    /\ pos' = pos + 1
    /\ rpc' = "file"
    /\ parsed' = NoParse /\ author' = <<>>
    /\ UNCHANGED <<files, REFINED_FILE, singleFile, filesToProcess, refinedSpots,
                   processed, requests, sleptSinceRequest, gap, rewritten, marked>>

\* lines 212-216: the completion arrives, the file is overwritten
Rewrite(completion) ==
    /\ UNCHANGED <<ingestion, functions, attempts>>
    /\ rpc = "refining"
    /\ files' = WriteFile(files, filesToProcess[pos],
                          buildMdx(parsed.frontmatter, refineReview(completion), author))
    /\ rewritten' = rewritten \cup {filesToProcess[pos]}
    /\ rpc' = "mark"
    /\ UNCHANGED <<REFINED_FILE, singleFile, filesToProcess, refinedSpots,
                   processed, pos, parsed, author, requests, sleptSinceRequest,
                   gap, marked>>

\* MarkDone without saveRefinedSpots
MarkDone_NoSave ==
    /\ UNCHANGED <<ingestion, functions, attempts>>
    /\ rpc = "mark"
    /\ IF singleFile = <<>>
       THEN /\ refinedSpots' =
                 Append(refinedSpots,
                        [filename |-> filesToProcess[pos], spotName |-> parsed.spotName])
            /\ UNCHANGED REFINED_FILE
            /\ marked' = marked \cup {filesToProcess[pos]}
       ELSE UNCHANGED <<refinedSpots, REFINED_FILE, marked>>
    /\ processed' = processed + 1
    /\ IF processed' < Len(filesToProcess)
       THEN /\ rpc' = "wait"
            /\ UNCHANGED pos
       ELSE /\ rpc' = "file"
            /\ pos' = pos + 1
    /\ parsed' = NoParse /\ author' = <<>>
    /\ UNCHANGED <<files, singleFile, filesToProcess, requests,
                   sleptSinceRequest, gap, rewritten>>

\* MarkDone without the test `if (!singleFile)`
MarkDone_AlwaysRecords ==
    /\ UNCHANGED <<ingestion, functions, attempts>>
    /\ rpc = "mark"
    /\ refinedSpots' =
          Append(refinedSpots,
                 [filename |-> filesToProcess[pos], spotName |-> parsed.spotName])
    /\ REFINED_FILE' = saveRefinedSpots(refinedSpots')
    /\ marked' = marked \cup {filesToProcess[pos]}
    /\ processed' = processed + 1
    /\ IF processed' < Len(filesToProcess)
       THEN /\ rpc' = "wait"
            /\ UNCHANGED pos
       ELSE /\ rpc' = "file"
            /\ pos' = pos + 1
    /\ parsed' = NoParse /\ author' = <<>>
    /\ UNCHANGED <<files, singleFile, filesToProcess, requests,
                   sleptSinceRequest, gap, rewritten>>

\* lines 221-236: the ledger entry is pushed and the ledger saved (batch
\* mode), processed++, and the sleep starts when processed < length
MarkDone ==
    /\ UNCHANGED <<ingestion, functions, attempts>>
    /\ rpc = "mark"
    /\ IF singleFile = <<>>
       THEN /\ refinedSpots' =
                 Append(refinedSpots,
                        [filename |-> filesToProcess[pos], spotName |-> parsed.spotName])
            /\ REFINED_FILE' = saveRefinedSpots(refinedSpots')
            /\ marked' = marked \cup {filesToProcess[pos]}
       ELSE UNCHANGED <<refinedSpots, REFINED_FILE, marked>>
    /\ processed' = processed + 1
    /\ IF processed' < Len(filesToProcess)
       THEN /\ rpc' = "wait"
            /\ UNCHANGED pos
       ELSE /\ rpc' = "file"
            /\ pos' = pos + 1
    /\ parsed' = NoParse /\ author' = <<>>
    /\ UNCHANGED <<files, singleFile, filesToProcess, requests,
                   sleptSinceRequest, gap, rewritten>>

\* sleep(RATE_LIMIT_MS) returns
Wait ==
    /\ UNCHANGED <<ingestion, functions, attempts>>
    /\ rpc = "wait"
    /\ sleptSinceRequest' = sleptSinceRequest + RATE_LIMIT_MS
    /\ pos' = pos + 1
    /\ rpc' = "file"
    /\ UNCHANGED <<files, REFINED_FILE, singleFile, filesToProcess, refinedSpots,
                   processed, parsed, author, requests, gap, rewritten, marked>>

\* the for loop is over
Finish ==
    /\ UNCHANGED <<ingestion, functions, attempts>>
    /\ rpc = "file" /\ pos > Len(filesToProcess)
    /\ rpc' = "done"
    /\ UNCHANGED <<files, REFINED_FILE, singleFile, filesToProcess, refinedSpots,
                   processed, pos, parsed, author, requests, sleptSinceRequest,
                   gap, rewritten, marked>>

\* The process is terminated from outside
Interrupt ==
    /\ UNCHANGED <<ingestion, functions, attempts>>
    /\ rpc \in {"file", "refining", "mark", "wait"}
    /\ rpc' = "killed"
    /\ UNCHANGED <<files, REFINED_FILE, singleFile, filesToProcess, refinedSpots,
                   processed, pos, parsed, author, requests, sleptSinceRequest,
                   gap, rewritten, marked>>

\* The script is started again on the same disk
Rerun(argv) ==
    /\ UNCHANGED <<ingestion, functions>>
    /\ attempts' = <<>>
    /\ rpc \in {"done", "failed", "killed"}
    /\ rpc' = "start"
    /\ singleFile' = argv
    /\ filesToProcess' = <<>> /\ refinedSpots' = <<>> /\ processed' = 0 /\ pos' = 1
    /\ parsed' = NoParse /\ author' = <<>>
    /\ requests' = 0 /\ sleptSinceRequest' = 0 /\ gap' = 0
    /\ rewritten' = {} /\ marked' = {}
    /\ UNCHANGED <<files, REFINED_FILE>>

\* The directory the refinement script finds: two venue files as ingestion
\* writes them, a file without frontmatter delimiters, and the example
VenueFile(place) ==
    generateMdx(place, FallbackSynthesis(place.displayName, place.rating),
                Centro, place.displayName)
FileName(place) == VenueFile(place).slug \o <<MdxExt>>
Undelimited == [delimited |-> FALSE, frontmatter |-> <<>>, rest |-> <<"notes">>]
SpotsDir ==
    WriteFile(WriteFile(WriteFile(WriteFile(NoFiles,
        FileName(PlaceAb), VenueFile(PlaceAb).content),
        FileName(PlaceCd), VenueFile(PlaceCd).content),
        <<"draft", MdxExt>>, Undelimited),
        ExampleSpot, VenueFile(PlaceAb).content)

\* process.argv[2] of the refinement script: absent, a file with and without
\* extension, a file that does not exist
RefineArguments ==
    {<<>>, FileName(PlaceAb), VenueFile(PlaceCd).slug, <<"nowhere">>}

\* The refinement script runs (again and again) on that directory
InitRefinement ==
    /\ credential = TRUE
    /\ PROCESSED_FILE = MissingFile
    /\ pc = "off" /\ StartOfRun(<<>>)
    /\ ingested = {}
    /\ files = SpotsDir
    /\ REFINED_FILE \in {MissingFile, CorruptFile}
    /\ rpc = "start" /\ \E argv \in RefineArguments : StartOfRefinement(argv)
    /\ call = NoCall /\ result = NoResult

Init == InitIngestion \/ InitRefinement

Next ==
    \/ Load
    \/ DiscoverNoCredential
    \/ DiscoverFails
    \/ \E batch \in Batches : Discover(batch)
    \/ Skip
    \/ \E c \in NeighborhoodCompletions : InferNeighborhood(c)
    \/ \E c \in NameCompletions : CleanName(c)
    \/ \E c \in ReviewOutcomes : EnrichAborts(c)
    \/ \E c \in ReviewOutcomes : WriteSpot(c)
    \/ EndBatch
    \/ \E c \in QueryCompletions : Suggest(c)
    \/ \E argv \in Arguments : NewRun(argv)
    \/ SelectSingle
    \/ \E listing \in Listings : SelectBatch(listing)
    \/ ParseFails
    \/ \E rand \in Randoms : Request(rand)
    \/ RefineFails
    \/ \E c \in RefineCompletions : Rewrite(c)
    \/ MarkDone
    \/ Wait
    \/ Finish
    \/ Interrupt
    \/ \E argv \in RefineArguments : Rerun(argv)

Spec == Init /\ [][Next]_vars

\* ------------------------------------------- functions applied on their own

\* Longest text handed to slugify
MaxText == 4
\* Most entries of the ledger whose names seed the query suggestion
MaxKnown == 16

\* Characters of the texts handed to slugify: a lowercase letter, an
\* uppercase letter, a digit, a hyphen, a space and a precomposed accented
\* uppercase letter
SlugAlphabet == {"a", "B", "0", "-", SP, "E_ACUTE"}
Texts == UNION {[1..n -> SlugAlphabet] : n \in 0..MaxText}

\* A venue file as ingestion writes it, the same file without author field,
\* and a file whose frontmatter has neither title nor author
WithoutAuthor(content) ==
    [content EXCEPT !.frontmatter = [@ EXCEPT !.author = <<>>]]
WithoutTitle(content) ==
    [content EXCEPT !.frontmatter = [@ EXCEPT !.title = <<>>]]
Originals ==
    {VenueFile(PlaceAb).content,
     WithoutAuthor(VenueFile(PlaceAb).content),
     WithoutTitle(WithoutAuthor(VenueFile(PlaceCd).content))}

\* What the name service can answer besides NameCompletions: a name in a
\* script without a-z0-9
ForeignName == <<"CJK_KA", "CJK_FEI">>
\* What the neighborhood service and the name service can answer besides
\* NeighborhoodCompletions and NameCompletions: a pair of quotes with nothing
\* between them
EmptyQuotes == <<DQ, DQ>>

\* The name of the i-th entry of a ledger that was loaded; 0 is a place that
\* was ingested earlier in the same run
SpotName(i) == <<"Spot", ToString(i)>>
KnownNames(k) == [i \in 1..k |-> SpotName(i)]

SlugifyCalls == {[fn |-> "slugify", text |-> t] : t \in Texts}
BuildCalls ==
    {[fn |-> "buildMdx", original |-> o, completion |-> c, rand |-> r] :
        o \in Originals,
        c \in RefineCompletions \cup {Returned(<<"De toda la vida.">>)},
        r \in Randoms}
GenerateCalls ==
    {[fn |-> "generateMdx", place |-> p, neighborhood |-> n, name |-> c] :
        p \in Places,
        n \in NeighborhoodCompletions \cup {Returned(EmptyQuotes)},
        c \in NameCompletions
                \cup {Returned(ForeignName), Returned(<<>>), Returned(EmptyQuotes)}}
SuggestCalls ==
    UNION {{[fn |-> "suggestNewQuery", processedNames |-> KnownNames(k),
             skippedNames |-> skipped] :
                skipped \in UNION {{<<SpotName(j)>>, <<SpotName(j), SpotName(0)>>} :
                                      j \in 0..k}} :
           k \in 0..MaxKnown}

\* slugify(text)
ApplySlugify ==
    /\ call.fn = "slugify" /\ ~result.returned
    /\ result' = [returned |-> TRUE, times |-> 1, slug |-> slugify(call.text)]
    /\ UNCHANGED <<ingestion, files, refinement, call>>

\* slugify(slugify(text))
ApplySlugifyAgain ==
    /\ call.fn = "slugify" /\ result.returned /\ result.times = 1
    /\ result' = [returned |-> TRUE, times |-> 2, slug |-> slugify(result.slug),
                  first |-> result.slug]
    /\ UNCHANGED <<ingestion, files, refinement, call>>

\* The rewrite of one file as main() of the refinement script does it:
\* parseMdx, selectRandomAuthor, refineReview, buildMdx
ApplyBuildMdx ==
    /\ call.fn = "buildMdx" /\ ~result.returned
    /\ Matches(call.original)
    /\ LET newBody == refineReview(call.completion)
           newAuthor == selectRandomAuthor(call.rand)
       IN  result' =
             [returned |-> TRUE, newBody |-> newBody, author |-> newAuthor,
              content |-> buildMdx(parseMdx(call.original).frontmatter,
                                   newBody, newAuthor)]
    /\ UNCHANGED <<ingestion, files, refinement, call>>

\* The venue file of one place as processPlaces makes it: neighborhood,
\* clean name, generateMdx
ApplyGenerateMdx ==
    /\ call.fn = "generateMdx" /\ ~result.returned
    /\ LET n == inferNeighborhoodWithGroq(call.neighborhood)
           c == cleanCafeNameWithGroq(NameOf(call.place), call.name)
           mdx == generateMdx(call.place,
                              FallbackSynthesis(c, call.place.rating), n, c)
       IN  result' = [returned |-> TRUE, slug |-> mdx.slug,
                      neighborhood |-> n, cleanName |-> c,
                      title |-> mdx.content.frontmatter.title]
    /\ UNCHANGED <<ingestion, files, refinement, call>>

\* The names in the prompt of suggestNewQuery as main() calls it
ApplySuggestNewQuery ==
    /\ call.fn = "suggestNewQuery" /\ ~result.returned
    /\ result' =
         [returned |-> TRUE,
          names |-> PromptNames(SeedNames(call.processedNames, call.skippedNames))]
    /\ UNCHANGED <<ingestion, files, refinement, call>>

\* place.rating as the place search returns it, in tenths: absent (0), or
\* between 1.0 and 5.0
Ratings == {0, 10, 14, 15, 45, 50}
RatedPlaces ==
    {[p EXCEPT !.rating = r, !.hasReviewText = h] :
        p \in Places, r \in Ratings, h \in BOOLEAN}
\* What the review service can answer besides ReviewCompletions: JSON that
\* parses to an object whose values are not the ones the prompt asks for
OffContractJson == ObjectJson("fast", "loud", TRUE, 11, GeneratedReview)
SynthesizeCalls ==
    {[fn |-> "synthesizeReview", place |-> p, completion |-> c] :
        p \in RatedPlaces,
        c \in ReviewCompletions \cup {Returned(OffContractJson)}}

\* The metrics of the venue file of one place as processPlaces makes it:
\* synthesizeReview, generateMdx; nothing is written when synthesizeReview
\* throws or generateMdx reads a field of null
ApplySynthesizeReview ==
    /\ call.fn = "synthesizeReview" /\ ~result.returned
    /\ LET name == NameOf(call.place)
           synthesis == synthesizeReview(name, call.place.hasReviewText,
                                         call.place.rating, call.completion)
       IN  result' =
             IF synthesis.kind # "object"
             THEN [returned |-> TRUE, written |-> FALSE]
             ELSE LET mdx == generateMdx(call.place, synthesis, Centro, name)
                  IN  [returned |-> TRUE, written |-> TRUE,
                       generated |-> synthesis # FallbackSynthesis(name, call.place.rating),
                       metrics |-> mdx.content.frontmatter]
    /\ UNCHANGED <<ingestion, files, refinement, call>>

\* What a ledger file can hold when a script starts
LedgerFiles ==
    {MissingFile, CorruptFile, ObjectFile, JsonFile(<<>>),
     JsonFile(<<[uri |-> UriOf(PlaceAb), name |-> NameOf(PlaceAb),
                 neighborhood |-> Centro, slug |-> VenueFile(PlaceAb).slug]>>)}
RefinedLedgerFiles ==
    {MissingFile, CorruptFile, ObjectFile, JsonFile(<<>>),
     JsonFile(<<[filename |-> FileName(PlaceAb), spotName |-> NameOf(PlaceAb)]>>)}

\* A function with its arguments, or a script about to load its ledger
InitFunctions ==
    /\ credential = TRUE /\ ingested = {}
    /\ \/ /\ \/ call \in SlugifyCalls
             \/ call \in BuildCalls
             \/ call \in GenerateCalls
             \/ call \in SuggestCalls
             \/ call \in SynthesizeCalls
          /\ pc = "off" /\ rpc = "off"
          /\ PROCESSED_FILE = MissingFile /\ REFINED_FILE = MissingFile
          /\ files = NoFiles
       \/ /\ call = NoCall
          /\ pc = "start" /\ rpc = "off"
          /\ PROCESSED_FILE \in LedgerFiles /\ REFINED_FILE = MissingFile
          /\ files = NoFiles
       \/ /\ call = NoCall
          /\ pc = "off" /\ rpc = "start"
          /\ PROCESSED_FILE = MissingFile /\ REFINED_FILE \in RefinedLedgerFiles
          /\ files = SpotsDir
    /\ result = NoResult
    /\ StartOfRun(<<>>) /\ StartOfRefinement(<<>>)

NextFunctions ==
    \/ ApplySlugify
    \/ ApplySlugifyAgain
    \/ ApplyBuildMdx
    \/ ApplyGenerateMdx
    \/ ApplySuggestNewQuery
    \/ ApplySynthesizeReview
    \/ Load
    \/ \E listing \in Listings : SelectBatch(listing)

Functions == InitFunctions /\ [][NextFunctions]_vars


\* ------------------------------------------------ candidates without a URI

\* Two venues for which the place search returns no googleMapsUri
PlaceEf ==
    [displayName |-> <<"E", "f">>, googleMapsUri |-> "", rating |-> 40,
     hasReviewText |-> TRUE, priceLevel |-> "PRICE_LEVEL_MODERATE"]
PlaceGh ==
    [displayName |-> <<"G", "h">>, googleMapsUri |-> "", rating |-> 0,
     hasReviewText |-> FALSE, priceLevel |-> "PRICE_LEVEL_INEXPENSIVE"]
UnkeyedPlaces == {PlaceEf, PlaceGh}
UnkeyedBatches == UNION {[1..n -> UnkeyedPlaces] : n \in 0..MaxBatch}

\* The ingestion script runs (again and again) and every place search
\* returns places without URI
NextUnkeyed ==
    \/ Load
    \/ DiscoverNoCredential
    \/ DiscoverFails
    \/ \E batch \in UnkeyedBatches : Discover(batch)
    \/ Skip
    \/ \E c \in NeighborhoodCompletions : InferNeighborhood(c)
    \/ \E c \in NameCompletions : CleanName(c)
    \/ \E c \in ReviewOutcomes : EnrichAborts(c)
    \/ \E c \in ReviewOutcomes : WriteSpot(c)
    \/ EndBatch
    \/ \E c \in QueryCompletions : Suggest(c)
    \/ \E argv \in Arguments : NewRun(argv)

Unkeyed == InitIngestion /\ [][NextUnkeyed]_vars


\* ==================================================================== claims

UrisOf(spots) == {spots[i].uri : i \in 1..Len(spots)}
Last(seq) == seq[Len(seq)]

\* processPlaces has gone through all of places and is about to return
BatchOver == pc = "loop" /\ idx > Len(places)

\* C1: when processPlaces returns, newCount + skippedCount is the number of
\* candidates of the batch; and the step taken on a candidate whose URI is a
\* key of the ledger (loaded, or appended earlier in the run) sends no
\* text-generation request, writes no file and appends nothing to the ledger:
\* it only counts the candidate as skipped.
C1_Dedup ==
    [][ /\ BatchOver => newCount + skippedCount = Len(places)
        /\ (InLoop /\ UriOf(places[idx]) \in UrisOf(processedSpots))
              => /\ genCalls' = genCalls
                 /\ files' = files
                 /\ processedSpots' = processedSpots
                 /\ newCount' = newCount
                 /\ skippedCount' = skippedCount + 1 ]_vars

\* A batch is over in which a candidate was ingested and another one skipped
C1_Witness == BatchOver /\ newCount > 0 /\ skippedCount > 0

NoDuplicates(keys) == \A i, j \in 1..Len(keys) : keys[i] = keys[j] => i = j
UriColumn(spots) == [i \in 1..Len(spots) |-> spots[i].uri]
FilenameColumn(spots) == [i \in 1..Len(spots) |-> spots[i].filename]

\* C2: neither ledger ever holds two entries with the same key: not the list
\* a script holds in memory (the loaded entries and its appends), and not
\* what a fresh load of the saved file yields.
C2_UniqueKeys ==
    /\ NoDuplicates(UriColumn(processedSpots))
    /\ NoDuplicates(UriColumn(loadProcessedSpots(PROCESSED_FILE)))
    /\ NoDuplicates(FilenameColumn(refinedSpots))
    /\ NoDuplicates(FilenameColumn(loadRefinedSpots(REFINED_FILE)))

\* A later run has loaded a ledger of two entries that an earlier run saved
C2_Witness ==
    /\ pc = "discover" /\ discoverCalls = 0
    /\ Len(processedSpots) = 2
    /\ processedSpots = loadProcessedSpots(PROCESSED_FILE)

\* C3: (a) a batch that ends with more than half of its candidates skipped,
\* fewer than 5 new ones and fewer than 3 place searches made is followed by
\* a query-suggestion request, not by a place search; (b) a suggestion that
\* is empty or equal to the current query ends the run (DONE) without another
\* place search; (c) whenever the script is about to search again, exactly one
\* suggestion has been requested since the last search and the query differs
\* from the one of the last search.
C3_Retry ==
    /\ [][ /\ (/\ BatchOver
               /\ 2 * skippedCount > Len(places)
               /\ newCount < MIN_NEW
               /\ discoverCalls < MAX_RETRIES)
              => (pc' = "suggest" /\ discoverCalls' = discoverCalls)
           /\ (pc = "suggest" /\ (newQuery' = <<>> \/ newQuery' = query))
              => (pc' = "done" /\ discoverCalls' = discoverCalls) ]_vars
    /\ [](pc = "discover" /\ discoverCalls > 0 => asked = 1 /\ query # prevQuery)

\* The script is about to make its third place search
C3_Witness == pc = "discover" /\ discoverCalls = 2 /\ asked = 1

\* C4 (as claimed): whenever the script is about to search, or a place search
\* has just failed, the ledger file holds every entry appended so far.
C4_SavedAfterEachBatch ==
    (pc = "discover" \/ (pc = "failed" /\ failedAt = "fetchPlaces"))
        => loadProcessedSpots(PROCESSED_FILE) = processedSpots

\* C5 (as claimed): a run ends with failure only for a failed place search
\* or a missing credential.
C5_OnlyDiscoveryIsFatal ==
    pc = "failed" => failedAt \in {"fetchPlaces", "credential"}

\* The table of the claim, in tenths of a euro
ClaimedEuros(tier) ==
    CASE tier = "PRICE_LEVEL_FREE" -> 0
      [] tier = "PRICE_LEVEL_INEXPENSIVE" -> 18
      [] tier = "PRICE_LEVEL_MODERATE" -> 25
      [] tier = "PRICE_LEVEL_EXPENSIVE" -> 35
      [] tier = "PRICE_LEVEL_VERY_EXPENSIVE" -> 45
      [] OTHER -> 25

\* C6 (as claimed): the coffee_price of every venue file written is the
\* amount the table gives for the price tier of its place.
C6_PriceTable ==
    [][ (pc = "synth" /\ pc' = "loop")
          => files'[Last(processedSpots').slug \o <<MdxExt>>].frontmatter.coffee_price
                = ClaimedEuros(places[idx].priceLevel) ]_vars

\* C7 (as claimed): a run makes at most 3 place searches and at most 2
\* query-suggestion requests, and ends with failure only if the credential
\* is missing or one of its external calls failed.
C7_BoundedAndDone ==
    /\ discoverCalls <= MAX_RETRIES
    /\ suggestCalls <= MAX_RETRIES - 1
    /\ pc = "failed" => (callThrew \/ ~credential)

\* C8: in batch mode, at every point of a run (so wherever it is
\* interrupted) the saved refinement ledger names every file whose entry the
\* run has saved, and at most one file that the run has overwritten is
\* missing from it: the file the loop is at.
C8_SavedPerFile ==
    (rpc # "off" /\ singleFile = <<>>)
        => LET saved == FilenamesOf(loadRefinedSpots(REFINED_FILE))
           IN  /\ marked \subseteq saved
               /\ Cardinality(rewritten \ saved) <= 1
               /\ \A f \in rewritten \ saved :
                     pos <= Len(filesToProcess) /\ f = filesToProcess[pos]

\* A run is interrupted after it recorded one file and overwrote the next
C8_Witness ==
    /\ rpc = "killed" /\ singleFile = <<>>
    /\ marked # {}
    /\ rewritten \ FilenamesOf(loadRefinedSpots(REFINED_FILE)) # {}

\* C9 (as claimed): two consecutive rewrite requests of a run are at least
\* RATE_LIMIT_MS of sleep apart.
C9_WaitBetweenRequests == requests >= 2 => gap >= RATE_LIMIT_MS

\* C10 (as claimed): the script sleeps only when another file follows.
C10_NoWaitAfterLast == rpc = "wait" => pos < Len(filesToProcess)

\* The files the saved refinement ledger names
Recorded == FilenamesOf(loadRefinedSpots(REFINED_FILE))

\* C11: a file that does not parse, and a file whose rewrite request fails,
\* leave the files and the refinement ledger as they were and the loop goes
\* on (unless the process is killed from outside); the files attempted are
\* at every moment the first files of the selection, each once and in order;
\* a run that ends normally has attempted all of them; and a run ends with
\* failure only before the loop (single-file target not found).
C11_FailuresAreCaught ==
    /\ [][ /\ (AtFile /\ ~Matches(files[filesToProcess[pos]]))
              => /\ files' = files /\ REFINED_FILE' = REFINED_FILE
                 /\ rpc' \in {"file", "killed"}
           /\ (rpc = "refining" /\ rpc' # "mark")
              => /\ files' = files /\ REFINED_FILE' = REFINED_FILE
                 /\ rpc' \in {"file", "killed"} ]_vars
    /\ [](/\ Len(attempts) <= Len(filesToProcess)
          /\ attempts = SubSeq(filesToProcess, 1, Len(attempts)))
    /\ [](rpc = "done" => attempts = filesToProcess)
    /\ [](rpc = "failed" => attempts = <<>>)

\* A run has ended in which the first file failed and the second was rewritten
C11_Witness ==
    /\ rpc = "done" /\ Len(attempts) >= 2
    /\ attempts[1] \notin rewritten /\ attempts[2] \in rewritten

\* C15: in batch mode every file whose entry a run has saved is named by a
\* fresh load of the ledger; a batch selection holds no file the ledger
\* names; and no rewrite is requested or written for a file the ledger names.
C15_RecordedNeverRefinedAgain ==
    /\ [](marked \subseteq Recorded)
    /\ [][ /\ (singleFile = <<>> /\ rpc = "start" /\ rpc' # "start")
              => \A i \in 1..Len(filesToProcess') : filesToProcess'[i] \notin Recorded
           /\ (singleFile = <<>> /\ requests' = requests + 1)
              => filesToProcess[pos] \notin Recorded
           /\ (singleFile = <<>> /\ rpc = "refining" /\ rpc' = "mark")
              => filesToProcess[pos] \notin Recorded ]_vars

\* A later batch run requests a rewrite while the ledger names a file that an
\* earlier run recorded
C15_Witness ==
    /\ singleFile = <<>> /\ rpc = "refining"
    /\ marked = {} /\ Recorded # {}

C12_IdempotentAcrossRuns ==
    [][ (InLoop /\ UriOf(places[idx]) \in ingested)
           => /\ genCalls' = genCalls
              /\ files' = files
              /\ processedSpots' = processedSpots ]_vars

\* The ledger entries the batch that is over has appended
BatchEntries ==
    SubSeq(processedSpots, Len(processedSpots) - newCount + 1, Len(processedSpots))

\* C13 (as claimed): when a batch of n candidates is over, of which k were
\* found in the ledger when they were reached, n - k ledger entries have been
\* appended and they name n - k venue files on disk; and with n - k >= 5 no
\* retry is wanted.
C13_NewFilesAndEntries ==
    BatchOver =>
        LET n == Len(places)
            k == skippedCount
            written == {BatchEntries[i].slug \o <<MdxExt>> : i \in 1..newCount}
        IN  /\ newCount = n - k
            /\ written \subseteq DOMAIN files
            /\ Cardinality(written) = n - k
            /\ (n - k >= MIN_NEW => ~RetryWanted)

\* s matches ^[a-z0-9]+(-[a-z0-9]+)*$
SafeSlug(s) ==
    /\ s # <<>>
    /\ \A i \in 1..Len(s) : s[i] \in SlugChars \cup {"-"}
    /\ s[1] # "-" /\ s[Len(s)] # "-"
    /\ \A i \in 1..(Len(s) - 1) : ~(s[i] = "-" /\ s[i + 1] = "-")

\* C14 (as claimed): the file buildMdx makes from the frontmatter of a parsed
\* original, a body refineReview returned and an author parses again, its
\* body is that body and its frontmatter has that author.
C14_RoundTrip ==
    (call.fn = "buildMdx" /\ result.returned)
        => /\ Matches(result.content)
           /\ parseMdx(result.content).body = result.newBody
           /\ parseMdx(result.content).frontmatter.author = result.author

\* C17: what slugify returns is empty or matches ^[a-z0-9]+(-[a-z0-9]+)*$,
\* and slugify applied to it returns it unchanged.
C17_SlugifyIdempotent ==
    (call.fn = "slugify" /\ result.returned)
        => /\ result.slug = <<>> \/ SafeSlug(result.slug)
           /\ result.times = 2 => result.slug = result.first

\* slugify has been applied twice to a text with a leading hyphen, an
\* accented uppercase letter, a space and an uppercase letter
C17_Witness ==
    /\ call.fn = "slugify" /\ result.returned /\ result.times = 2
    /\ call.text = <<"-", "E_ACUTE", SP, "B">>
    /\ result.first = <<"e", "-", "b">>

\* C18 (as claimed): the slug of a venue file is slugify(neighborhood), a
\* hyphen and slugify(title), and it matches ^[a-z0-9]+(-[a-z0-9]+)*$.
C18_SafeSlug ==
    (call.fn = "generateMdx" /\ result.returned)
        => /\ result.slug =
                slugify(result.neighborhood) \o <<"-">> \o slugify(result.title)
           /\ SafeSlug(result.slug)

\* C19 (as claimed): every name skipped in the round is one of the names in
\* the prompt of the query suggestion.
C19_SkippedNamesInPrompt ==
    (call.fn = "suggestNewQuery" /\ result.returned)
        => \A i \in 1..Len(call.skippedNames) :
              \E m \in 1..Len(result.names) : result.names[m] = call.skippedNames[i]

\* C20 (as claimed): whatever the ledger file holds, neither script fails on
\* the value it loads, and with an absent or unparseable file the ingestion
\* script goes on to its first search with an empty ledger.
C20_LoadNeverFails ==
    /\ ~(pc = "failed" /\ failedAt = "main")
    /\ singleFile = <<>> => rpc # "failed"
    /\ (pc = "discover" /\ (~PROCESSED_FILE.exists \/ ~PROCESSED_FILE.parses))
          => ledgerVars = << <<>>, {}, <<>> >>

\* C21: without the place-search credential a run sends no request of any
\* kind (place search, query suggestion, text generation) and gets no
\* candidate; no step changes a venue file or the ledger file; and the step
\* the run takes at its first search ends it with failure.
C21_NoCredentialNoCalls ==
    /\ [](~credential
            => /\ discoverCalls = 0 /\ suggestCalls = 0 /\ genCalls = 0
               /\ seen = 0
               /\ pc \in {"start", "discover", "failed"})
    /\ [][ ~credential
             => /\ files' = files
                /\ PROCESSED_FILE' = PROCESSED_FILE
                /\ pc = "discover" => (pc' = "failed" /\ failedAt' = "credential") ]_vars

\* A run without credential has ended with failure at its first search
C21_Witness ==
    ~credential /\ pc = "failed" /\ failedAt = "credential" /\ discoverCalls = 0

\* main() is between its load and its end
Running == pc \in {"discover", "loop", "clean", "synth", "suggest"}

\* C22: while a run is on, a step leaves the ledger in memory alone or
\* appends one entry to it, the entry of the candidate the loop is at, and
\* counts that candidate as new; the loaded entries stay its first entries;
\* and at DONE the saved ledger is the ledger in memory, its length is the
\* loaded length plus the total of new spots, and the totals of new and
\* skipped add up to the candidates the place searches returned.
C22_AppendOnly ==
    /\ [][ Running
             => \/ processedSpots' = processedSpots /\ newCount' \in {newCount, 0}
                \/ /\ Len(processedSpots') = Len(processedSpots) + 1
                   /\ processedSpots' = Append(processedSpots, Last(processedSpots'))
                   /\ Last(processedSpots').uri = UriOf(places[idx])
                   /\ newCount' = newCount + 1 /\ idx' = idx + 1 ]_vars
    /\ [](Running \/ pc = "done"
            => /\ Len(loadedSpots) <= Len(processedSpots)
               /\ SubSeq(processedSpots, 1, Len(loadedSpots)) = loadedSpots)
    /\ [](pc = "done"
            => /\ loadProcessedSpots(PROCESSED_FILE) = processedSpots
               /\ Len(processedSpots) = Len(loadedSpots) + totalNew
               /\ totalNew + totalSkipped = seen)

\* A run that loaded one entry has ended after two searches, with one new
\* spot and two candidates skipped
C22_Witness ==
    /\ pc = "done" /\ discoverCalls = 2
    /\ Len(loadedSpots) = 1 /\ totalNew = 1 /\ totalSkipped >= 2

\* The venue files the entries appended in the current run name
WrittenThisRun ==
    {processedSpots[i].slug \o <<MdxExt>> :
        i \in (Len(loadedSpots) + 1)..Len(processedSpots)}

\* C23 (as claimed): no step removes a venue file, and the file a run of the
\* ingestion script writes for a candidate is not a file that was on disk
\* when the run started.
C23_CreatedOnce ==
    [][ /\ DOMAIN files \subseteq DOMAIN files'
        /\ (pc = "synth" /\ pc' = "loop")
              => Last(processedSpots').slug \o <<MdxExt>>
                    \notin DOMAIN files \ WrittenThisRun ]_vars

\* The place with a given URI
PlaceOf(uri) == CHOOSE p \in Places : UriOf(p) = uri

\* The text-generation requests the candidates behind the ledger entries
\* from..to take when each is enriched once: neighborhood, name, and the
\* review if the place has review text
RECURSIVE EnrichmentCalls(_, _, _)
EnrichmentCalls(spots, from, to) ==
    IF from > to THEN 0
    ELSE (IF PlaceOf(spots[from].uri).hasReviewText THEN 3 ELSE 2)
            + EnrichmentCalls(spots, from + 1, to)

\* All requests a run has sent
RequestsSent == discoverCalls + suggestCalls + genCalls

\* C24: the step on a new candidate is its neighborhood request, the next
\* its name request, the next its review request (none without review text)
\* together with the file write, the ledger append and the move to the next
\* candidate, or the failure of the run; nothing is written or appended
\* before that third step and the loop stays at the candidate; no step sends
\* more than one request; and between two candidates the run has sent, for
\* every candidate it ingested, two requests and a third if the place has
\* review text.
C24_StepsInOrder ==
    /\ [][ /\ (InLoop /\ UriOf(places[idx]) \notin UrisOf(processedSpots))
              => /\ pc' = "clean" /\ genCalls' = genCalls + 1 /\ idx' = idx
                 /\ files' = files /\ processedSpots' = processedSpots
           /\ pc = "clean"
              => /\ pc' = "synth" /\ genCalls' = genCalls + 1 /\ idx' = idx
                 /\ files' = files /\ processedSpots' = processedSpots
           /\ pc = "synth"
              => \/ /\ pc' = "failed" /\ places[idx].hasReviewText
                    /\ genCalls' = genCalls + 1
                    /\ files' = files /\ processedSpots' = processedSpots
                 \/ /\ pc' = "loop" /\ idx' = idx + 1
                    /\ genCalls' = genCalls
                          + (IF places[idx].hasReviewText THEN 1 ELSE 0)
                    /\ Len(processedSpots') = Len(processedSpots) + 1
                    /\ DOMAIN files'
                          = DOMAIN files \cup {Last(processedSpots').slug \o <<MdxExt>>}
                    /\ newCount' = newCount + 1
           /\ Running => RequestsSent' <= RequestsSent + 1 ]_vars
    /\ [](pc \in {"loop", "suggest", "done"} \/ (pc = "discover" /\ discoverCalls > 0)
            => genCalls = EnrichmentCalls(processedSpots, Len(loadedSpots) + 1,
                                          Len(processedSpots)))

\* A batch is over in which a place with review text and a place without
\* were ingested
C24_Witness ==
    BatchOver /\ discoverCalls = 1 /\ newCount = 2 /\ genCalls = 5

\* The slug generateMdx gives the candidate the loop is at (the synthesis has
\* no part in it)
SlugAtHand ==
    generateMdx(places[idx], FallbackSynthesis(cleanName, places[idx].rating),
                neighborhood, cleanName).slug

\* The candidate about to be written has the slug of an entry that the batch
\* appended for another URI
Collides ==
    /\ pc = "synth"
    /\ \E i \in 1..newCount :
          /\ BatchEntries[i].slug = SlugAtHand
          /\ BatchEntries[i].uri # UriOf(places[idx])

\* C25: when a candidate is written whose slug an earlier candidate of the
\* batch with another URI got, it is counted as new and its entry is appended
\* after the earlier one (two entries with that slug), no file is added, the
\* file of that slug holds the title and the price of the later candidate,
\* and the other files stay as they were.
C25_LastWriteWins ==
    [][ (Collides /\ pc' = "loop")
          => LET f == SlugAtHand \o <<MdxExt>>
             IN  /\ newCount' = newCount + 1
                 /\ processedSpots' = Append(processedSpots, Last(processedSpots'))
                 /\ Last(processedSpots').slug = SlugAtHand
                 /\ Last(processedSpots').uri = UriOf(places[idx])
                 /\ DOMAIN files' = DOMAIN files
                 /\ files'[f].frontmatter.title = cleanName
                 /\ files'[f].frontmatter.coffee_price
                        = priceLevelToEuros(places[idx].priceLevel)
                 /\ \A g \in DOMAIN files \ {f} : files'[g] = files[g] ]_vars

\* Two candidates of a batch with different URIs were written to one file
C25_Witness ==
    /\ pc = "loop" /\ newCount = 2
    /\ BatchEntries[1].slug = BatchEntries[2].slug
    /\ BatchEntries[1].uri # BatchEntries[2].uri
    /\ DOMAIN files = {BatchEntries[2].slug \o <<MdxExt>>}

\* C26 (as claimed): the metrics of every venue file ingestion writes have a
\* wifi_speed among flynet, reliable, spotty, detox, a noise_level among
\* silence, hum, chaos, a boolean plug_access and an integer casi_score from
\* 1 to 10, whatever the review service answered and whatever the rating.
C26_MetricsShape ==
    (call.fn = "synthesizeReview" /\ result.returned /\ result.written)
        => /\ result.metrics.wifi_speed \in {"flynet", "reliable", "spotty", "detox"}
           /\ result.metrics.noise_level \in {"silence", "hum", "chaos"}
           /\ result.metrics.plug_access \in BOOLEAN
           /\ result.metrics.casi_score \in 1..10

\* The call failed, or its completion has no text besides whitespace
NoUsableText(completion) ==
    completion.threw \/ Trim(completion.content) = <<>>

\* C27 (as claimed): neighborhood inference returns 'Centro' and name
\* clean-up returns the raw name when the call fails or the completion is
\* empty, and for no completion does either return the empty string.
C27_FallbackNeverEmpty ==
    (call.fn = "generateMdx" /\ result.returned)
        => /\ NoUsableText(call.neighborhood) => result.neighborhood = Centro
           /\ NoUsableText(call.name) => result.cleanName = NameOf(call.place)
           /\ result.neighborhood # <<>>
           /\ result.cleanName # <<>>

\* C28: the step that ends a round whose place search returned no candidate
\* finds zero new and zero skipped, requests no query suggestion and no
\* place search, leaves the totals and the ledger in memory as they were,
\* saves that ledger and ends the run (DONE).
C28_EmptyBatchEndsRun ==
    [][ (BatchOver /\ Len(places) = 0)
          => /\ newCount = 0 /\ skippedCount = 0
             /\ pc' = "done"
             /\ suggestCalls' = suggestCalls /\ discoverCalls' = discoverCalls
             /\ totalNew' = totalNew /\ totalSkipped' = totalSkipped
             /\ processedSpots' = processedSpots
             /\ loadProcessedSpots(PROCESSED_FILE') = processedSpots ]_vars

\* A run has ended whose second place search returned no candidate
C28_Witness ==
    pc = "done" /\ places = <<>> /\ discoverCalls = 2 /\ totalSkipped > 0

\* C29 (as claimed): once a candidate without URI has been ingested, in this
\* run or in an earlier one, the step on any candidate without URI only
\* counts it as skipped: no request, no file, no ledger entry.
C29_OneUnkeyedEver ==
    [][ (InLoop /\ UriOf(places[idx]) = "" /\ "" \in ingested)
          => /\ skippedCount' = skippedCount + 1
             /\ genCalls' = genCalls
             /\ files' = files
             /\ processedSpots' = processedSpots ]_vars

====
